---- MODULE Spec2Model ----
(***************************************************************************)
(* A model of src/main.py: the cleaning steps of main(), the builder       *)
(* create_data_for_character_appearance_network() and the metrics of       *)
(* plot_degree_distribution().                                             *)
(*                                                                         *)
(* A polars DataFrame is a bag (multiset) of rows: no statement of the     *)
(* program reads the position of a row, and duplicate rows are possible.   *)
(* Series.unique() returns the distinct values in no guaranteed order, so  *)
(* every loop over unique() takes its elements in an arbitrary order.      *)
(* A networkx Graph is its node list (insertion order) and, for every edge *)
(* (an unordered pair {u, v}, {u} for a self-loop), the edge's weight.     *)
(***************************************************************************)
EXTENDS Integers, Sequences, FiniteSets, Bags, TLC

\* ------------------------------------------------------------------ bounds
\* The largest number of rows of the builder's input (Spec).
MaxRows == 5
\* The largest number of rows of characters.csv (SpecMain).
MaxCsvRows == 2

\* The character names and chapter numbers the inputs are drawn from.
Characters == {"A", "B", "C"}
ChapterIds == {1, 2}
Volumes == {1, 2}

\* polars' null in an integer column and in a text column.
NoneInt == -1
NoneStr == "None"

VARIABLES
    pc,             \* where the program is
    characters_df,  \* main: characters.csv, then with chapter/episode extracted
    chapters_df,    \* main: chapters.csv
    df,             \* the builder's input (main: the joined, cleaned table)
    G,              \* the graph under construction
    chapters,       \* chapters the loop of line 135 has still to visit
    chapter,        \* loop variable of line 135
    chapter_df,     \* line 136
    characters,     \* characters the loop of line 137 has still to visit
    character,      \* loop variable of line 137
    characters2,    \* characters the loop of line 139 has still to visit
    character2,     \* loop variable of line 139
    report,         \* what plot_degree_distribution printed and annotated
    error           \* the exception that ended the run, "" when none

vars == <<pc, characters_df, chapters_df, df, G, chapters, chapter, chapter_df,
          characters, character, characters2, character2, report, error>>

\* ------------------------------------------------------------------ helpers
Range(s) == {s[i] : i \in DOMAIN s}

RECURSIVE SumSeq(_)
SumSeq(s) == IF s = <<>> THEN 0 ELSE Head(s) + SumSeq(Tail(s))

RECURSIVE MaxSeq(_)
MaxSeq(s) == IF Len(s) = 1 THEN s[1]
             ELSE LET m == MaxSeq(Tail(s)) IN IF s[1] >= m THEN s[1] ELSE m

\* All bags of at most n elements of S.
RECURSIVE BagsUpTo(_, _)
BagsUpTo(S, n) ==
    IF n = 0 THEN {EmptyBag}
    ELSE LET prev == BagsUpTo(S, n - 1)
         IN  prev \cup {b (+) SetToBag({x}) : b \in prev, x \in S}

\* DataFrame.filter: the rows of bag B that are in Keep, with their copies.
FilterBag(B, Keep) == [r \in BagToSet(B) \cap Keep |-> B[r]]

\* ------------------------------------------------------------------ main()
\* The "appearance" text, "Chapter 551 ; Episode 460", as its labelled
\* numbers in order; number is NoneInt where no digits follow the label.
Label(l, n) == [label |-> l, number |-> n]

Appearances ==
    {<<Label("Chapter", n), Label("Episode", n)>> : n \in ChapterIds}
    \cup {<<Label("Chapter", n)>> : n \in ChapterIds}
    \cup {<<Label("Episode", 1)>>, <<Label("Chapter", NoneInt)>>}

\* str.extract(r"<label> (\d+)", 1).cast(pl.Int64): the digits of the first
\* match, null when the text has no match.
RECURSIVE Extract(_, _)
Extract(text, l) ==
    IF text = <<>> THEN NoneInt
    ELSE IF Head(text).label = l /\ Head(text).number # NoneInt
         THEN Head(text).number
         ELSE Extract(Tail(text), l)

\* Lines 201-206: add the chapter and episode columns, drop "appearance".
ExtractRow(r) ==
    [character |-> r.character,
     chapter   |-> Extract(r.appearance, "Chapter"),
     episode   |-> Extract(r.appearance, "Episode")]

\* Line 209: the rows a left row yields in a left join on "chapter". A null
\* key matches nothing; a row without a match is kept with null right columns.
\* (volume stands for the right table's columns volume, pages and date.)
JoinedRows(l, right) ==
    LET m == {r \in right : l.chapter # NoneInt /\ r.chapter = l.chapter}
        With(v) == [character |-> l.character, chapter |-> l.chapter,
                    episode |-> l.episode, volume |-> v]
    IN  IF m = {} THEN {With(NoneInt)} ELSE {With(r.volume) : r \in m}

LeftOf(j) == [character |-> j.character, chapter |-> j.chapter, episode |-> j.episode]

LeftJoin(left, right) ==
    [j \in UNION {JoinedRows(l, right) : l \in BagToSet(left)} |-> left[LeftOf(j)]]

\* Line 210: df.drop_nulls("chapter").
DropNulls(B) == FilterBag(B, {r \in BagToSet(B) : r.chapter # NoneInt})

\* Lines 14-19: cast chapter, volume (and pages) to Int64; the columns hold
\* Int64 already and a null stays null.
CastInt64(v) == IF v = NoneInt THEN NoneInt ELSE v
CoerceRow(r) == [r EXCEPT !.chapter = CastInt64(@), !.volume = CastInt64(@)]
coerce_types(B) == BagOfAll(CoerceRow, B)

\* ------------------------------------------------------------------ networkx
EmptyGraph == [nodes |-> <<>>, adj |-> [e \in {} |-> 0]]

NodeSet(g) == Range(g.nodes)
Edges(g) == DOMAIN g.adj

\* G.add_node(n): n joins the node list when it is new.
AddNode(g, n) ==
    [g EXCEPT !.nodes = IF n \in Range(@) THEN @ ELSE Append(@, n)]

\* G.add_edge(u, v, weight=w): both ends become nodes, the edge is created
\* when new, and its weight attribute is set to w (an existing edge's data
\* is updated with the attributes given).
AddEdge(g, u, v, w) ==
    LET g2 == AddNode(AddNode(g, u), v)
    IN  [g2 EXCEPT !.adj = [e \in DOMAIN @ \cup {{u, v}} |->
                               IF e = {u, v} THEN w ELSE @[e]]]

\* G[u][v]["weight"] += d
AddToWeight(g, u, v, d) == [g EXCEPT !.adj[{u, v}] = @ + d]

\* G.degree(): the neighbours of n, a self-loop counted twice.
Degree(g, n) ==
    Cardinality({e \in Edges(g) : n \in e}) + (IF {n} \in Edges(g) THEN 1 ELSE 0)

\* G.edges(): every edge once, self-loops included.
NumberOfEdges(g) == Cardinality(Edges(g))

\* G.neighbors(n): a node with a self-loop is its own neighbour.
Neighbors(g, n) == {m \in NodeSet(g) : {n, m} \in Edges(g)}

\* ------------------------------------------------------------------ builder
\* Line 135: characters_df["chapter"].unique() (a null is one of the values).
UniqueChapters(B) == {r.chapter : r \in BagToSet(B)}

\* ChapterRows without the filter: every row of the table, whatever its chapter.
ChapterRows_Unfiltered(B, ch) == B

\* Line 136: characters_df.filter(pl.col("chapter") == chapter); a comparison
\* with null is null, and filter keeps no such row.
ChapterRows(B, ch) ==
    FilterBag(B, {r \in BagToSet(B) :
                     r.chapter # NoneInt /\ ch # NoneInt /\ r.chapter = ch})

\* Lines 137, 139: chapter_df["character"].unique().
UniqueCharacters(B) == {r.character : r \in BagToSet(B)}

\* EdgeWeight with the weight of line 141 on both branches.
EdgeWeight_AlwaysOne(c, c2) == 1

\* Lines 141, 144: the weight= argument of add_edge.
EdgeWeight(c, c2) == IF c # c2 THEN 1 ELSE 0

\* WeightIncrement with the += 1 of line 142 on both branches.
WeightIncrement_AlwaysOne(c, c2) == 1

\* Lines 142, 145: what is then added to the weight.
WeightIncrement(c, c2) == IF c # c2 THEN 1 ELSE 0

\* RestOfCharacters with a break after the self pair.
RestOfCharacters_BreakAfterSelf(todo, c, c2) == IF c = c2 THEN {} ELSE todo \ {c2}

\* Line 139: the inner loop goes on with the characters not yet visited.
RestOfCharacters(todo, c, c2) == todo \ {c2}

\* networkx refuses None as a node.
NoneNode == "ValueError: None cannot be a node"

\* Line 132 and the evaluation of line 135's iterable.
CreateGraph ==
    /\ pc = "build"
    /\ G' = EmptyGraph
    /\ chapters' = UniqueChapters(df)
    /\ pc' = "chapters"
    /\ UNCHANGED <<characters_df, chapters_df, df, chapter, chapter_df, characters,
                   character, characters2, character2, report, error>>

\* Lines 135-137: the next chapter, its rows and its distinct characters.
NextChapter ==
    /\ pc = "chapters"
    /\ \E ch \in chapters :
         /\ chapter' = ch
         /\ chapters' = chapters \ {ch}
         /\ chapter_df' = ChapterRows(df, ch)
         /\ characters' = UniqueCharacters(ChapterRows(df, ch))
    /\ pc' = "characters"
    /\ UNCHANGED <<characters_df, chapters_df, df, G, character, characters2,
                   character2, report, error>>

\* Line 147: the loop of line 135 is exhausted.
ReturnGraph ==
    /\ pc = "chapters"
    /\ chapters = {}
    /\ pc' = "returned"
    /\ UNCHANGED <<characters_df, chapters_df, df, G, chapters, chapter, chapter_df,
                   characters, character, characters2, character2, report, error>>

\* Lines 137-139: the next character of the chapter becomes a node.
NextCharacter ==
    /\ pc = "characters"
    /\ \E c \in characters :
         /\ character' = c
         /\ characters' = characters \ {c}
         /\ IF c = NoneStr
            THEN /\ pc' = "raised"
                 /\ error' = NoneNode
                 /\ UNCHANGED <<G, characters2>>
            ELSE /\ G' = AddNode(G, c)
                 /\ characters2' = UniqueCharacters(chapter_df)
                 /\ pc' = "pairs"
                 /\ UNCHANGED error
    /\ UNCHANGED <<characters_df, chapters_df, df, chapters, chapter, chapter_df,
                   character2, report>>

\* The loop of line 137 is exhausted: back to line 135.
EndChapter ==
    /\ pc = "characters"
    /\ characters = {}
    /\ pc' = "chapters"
    /\ UNCHANGED <<characters_df, chapters_df, df, G, chapters, chapter, chapter_df,
                   characters, character, characters2, character2, report, error>>

\* Lines 139-141 and 144: the next partner, and add_edge with its weight.
AddPairEdge ==
    /\ pc = "pairs"
    /\ \E c2 \in characters2 :
         /\ character2' = c2
         /\ characters2' = RestOfCharacters(characters2, character, c2)
         /\ IF c2 = NoneStr
            THEN /\ pc' = "raised"
                 /\ error' = NoneNode
                 /\ UNCHANGED G
            ELSE /\ G' = AddEdge(G, character, c2, EdgeWeight(character, c2))
                 /\ pc' = "increment"
                 /\ UNCHANGED error
    /\ UNCHANGED <<characters_df, chapters_df, df, chapters, chapter, chapter_df,
                   characters, character, report>>

\* Lines 142 and 145: the += on the edge's weight.
IncrementWeight ==
    /\ pc = "increment"
    /\ G' = AddToWeight(G, character, character2, WeightIncrement(character, character2))
    /\ pc' = "pairs"
    /\ UNCHANGED <<characters_df, chapters_df, df, chapters, chapter, chapter_df,
                   characters, character, characters2, character2, report, error>>

\* The loop of line 139 is exhausted: back to line 137.
EndCharacter ==
    /\ pc = "pairs"
    /\ characters2 = {}
    /\ pc' = "characters"
    /\ UNCHANGED <<characters_df, chapters_df, df, G, chapters, chapter, chapter_df,
                   characters, character, characters2, character2, report, error>>

\* ------------------------------------------------------------------ metrics
\* Line 169: [d for n, d in G.degree()], in node order.
DegreeSequence(g) == [i \in 1..Len(g.nodes) |-> Degree(g, g.nodes[i])]

\* Line 170: {x: degree_sequence.count(x) for x in set(degree_sequence)}.
DegreeCount(ds) == [x \in Range(ds) |-> Cardinality({i \in DOMAIN ds : ds[i] = x})]

\* Line 174: max(degree_count, key=degree_count.get) is one of the degrees
\* with the largest count (the first in the dict's order).
MostCommon(dc) == {x \in DOMAIN dc : \A y \in DOMAIN dc : dc[y] <= dc[x]}

\* AverageDegree divided by the number of distinct degrees.
AverageDegree_OverDistinctDegrees(ds, dc) ==
    [num |-> SumSeq(ds), den |-> Cardinality(DOMAIN dc)]

\* Line 186: sum(degree_sequence) / len(degree_sequence), as the fraction.
AverageDegree(ds, dc) == [num |-> SumSeq(ds), den |-> Len(ds)]

\* Line 189: max(G.degree(), key=lambda x: x[1])[0], the first node of the
\* largest degree.
HighestDegreeNode(g) ==
    LET ds == DegreeSequence(g)
        i  == CHOOSE k \in DOMAIN ds :
                 /\ ds[k] = MaxSeq(ds)
                 /\ \A j \in 1..(k - 1) : ds[j] < ds[k]
    IN  g.nodes[i]

\* max() of the empty degree_count.
EmptyMax == "ValueError: max() arg is an empty sequence"

NoReport ==
    [degree_sequence |-> <<>>, degree_count |-> [x \in {} |-> 0],
     most_common |-> NoneInt, total_nodes |-> NoneInt, total_edges |-> NoneInt,
     average |-> [num |-> 0, den |-> 0], highest |-> NoneInt,
     highest_node |-> NoneStr, neighbors |-> {}]

\* Lines 167-192 (main line 216), on the graph the builder returned.
PlotDegreeDistribution ==
    /\ pc = "returned"
    /\ LET ds == DegreeSequence(G)
           dc == DegreeCount(ds)
       IN  IF DOMAIN dc = {}
           THEN /\ report' = [NoReport EXCEPT !.degree_sequence = ds,
                                              !.degree_count = dc]
                /\ error' = EmptyMax
                /\ pc' = "raised"
           ELSE /\ \E mc \in MostCommon(dc) :
                     report' = [degree_sequence |-> ds,
                                degree_count    |-> dc,
                                most_common     |-> mc,
                                total_nodes     |-> Len(G.nodes),
                                total_edges     |-> NumberOfEdges(G),
                                average         |-> AverageDegree(ds, dc),
                                highest         |-> MaxSeq(ds),
                                highest_node    |-> HighestDegreeNode(G),
                                neighbors       |-> Neighbors(G, HighestDegreeNode(G))]
                /\ pc' = "plotted"
                /\ UNCHANGED error
    /\ UNCHANGED <<characters_df, chapters_df, df, G, chapters, chapter, chapter_df,
                   characters, character, characters2, character2>>

\* ------------------------------------------------------------------ main steps
\* Lines 201-206.
ExtractColumns ==
    /\ pc = "extract"
    /\ characters_df' = BagOfAll(ExtractRow, characters_df)
    /\ pc' = "join"
    /\ UNCHANGED <<chapters_df, df, G, chapters, chapter, chapter_df, characters,
                   character, characters2, character2, report, error>>

\* Line 209.
JoinChapters ==
    /\ pc = "join"
    /\ df' = LeftJoin(characters_df, chapters_df)
    /\ pc' = "drop_nulls"
    /\ UNCHANGED <<characters_df, chapters_df, G, chapters, chapter, chapter_df,
                   characters, character, characters2, character2, report, error>>

\* Line 210.
DropNullChapters ==
    /\ pc = "drop_nulls"
    /\ df' = DropNulls(df)
    /\ pc' = "coerce"
    /\ UNCHANGED <<characters_df, chapters_df, G, chapters, chapter, chapter_df,
                   characters, character, characters2, character2, report, error>>

\* Line 212, and the call of line 215.
CoerceTypes ==
    /\ pc = "coerce"
    /\ df' = coerce_types(df)
    /\ pc' = "build"
    /\ UNCHANGED <<characters_df, chapters_df, G, chapters, chapter, chapter_df,
                   characters, character, characters2, character2, report, error>>

\* ------------------------------------------------------------------ specifications
\* The rows a caller may hand to the builder: a character and a chapter, either
\* possibly null (the other columns are not read by it).
BuilderRows ==
    [character : Characters \cup {NoneStr}, chapter : ChapterIds \cup {NoneInt},
     episode : {NoneInt}, volume : {NoneInt}]

\* The rows of characters.csv and of chapters.csv.
CsvRows == [character : Characters \cup {NoneStr}, appearance : Appearances]
ChapterRecords == [chapter : ChapterIds, volume : Volumes]

Fresh ==
    /\ G = EmptyGraph
    /\ chapters = {}
    /\ chapter = NoneInt
    /\ chapter_df = EmptyBag
    /\ characters = {}
    /\ character = NoneStr
    /\ characters2 = {}
    /\ character2 = NoneStr
    /\ report = NoReport
    /\ error = ""

\* The builder called on any table, followed by the metrics.
Init ==
    /\ pc = "build"
    /\ characters_df = EmptyBag
    /\ chapters_df = {}
    /\ df \in BagsUpTo(BuilderRows, MaxRows)
    /\ Fresh

Builder ==
    \/ CreateGraph
    \/ NextChapter
    \/ ReturnGraph
    \/ NextCharacter
    \/ EndChapter
    \/ AddPairEdge
    \/ IncrementWeight
    \/ EndCharacter

Next ==
    \/ Builder
    \/ PlotDegreeDistribution

Spec == Init /\ [][Next]_vars

\* main() from the two files read at lines 196-197.
InitMain ==
    /\ pc = "extract"
    /\ characters_df \in BagsUpTo(CsvRows, MaxCsvRows)
    /\ chapters_df \in SUBSET ChapterRecords
    /\ df = EmptyBag
    /\ Fresh

NextMain ==
    \/ ExtractColumns
    \/ JoinChapters
    \/ DropNullChapters
    \/ CoerceTypes
    \/ Builder
    \/ PlotDegreeDistribution

SpecMain == InitMain /\ [][NextMain]_vars

\* ------------------------------------------------------------------ properties
\* What the claims say of the input table, read off df itself.
ChaptersOf(B, c) == {r.chapter : r \in {x \in BagToSet(B) : x.character = c}} \ {NoneInt}
InputCharacters(B) == {r.character : r \in {x \in BagToSet(B) : x.chapter # NoneInt}}
CharactersIn(B, ch) == {r.character : r \in {x \in BagToSet(B) : x.chapter = ch}}
SharedChapters(B, a, b) == ChaptersOf(B, a) \cap ChaptersOf(B, b)
CoStars(B, c) == {b \in InputCharacters(B) \ {c} : SharedChapters(B, c, b) # {}}
CoOccurringPairs(B) ==
    {e \in SUBSET InputCharacters(B) :
        /\ Cardinality(e) = 2
        /\ \E a, b \in e : a # b /\ SharedChapters(B, a, b) # {}}
CrossEdges(g) == {e \in Edges(g) : Cardinality(e) = 2}

RECURSIVE SumOver(_, _)
SumOver(S, f) ==
    IF S = {} THEN 0
    ELSE LET x == CHOOSE y \in S : TRUE IN f[x] + SumOver(S \ {x}, f)

\* The builder has returned G (the metrics may have run on it since).
Returned == pc \in {"returned", "plotted"} \/ (pc = "raised" /\ error = EmptyMax)
\* plot_degree_distribution has ended, normally or not.
MetricsEnded == pc = "plotted" \/ (pc = "raised" /\ error = EmptyMax)

\* C1: in the returned graph every pair of distinct characters that share a
\* chapter is an edge whose weight is k times the number of chapters they
\* share, for one k in {1, 2}.
C1_WeightCountsSharedChapters ==
    Returned =>
        \E k \in {1, 2} :
            \A e \in CoOccurringPairs(df) :
                /\ e \in Edges(G)
                /\ \A a, b \in e :
                     a # b => G.adj[e] = k * Cardinality(SharedChapters(df, a, b))

\* C2: in every state a self-loop has weight 0, and in the returned graph
\* every node has its self-loop.
C2_SelfLoopWeightZero ==
    /\ \A c \in NodeSet(G) : {c} \in Edges(G) => G.adj[{c}] = 0
    /\ Returned => \A c \in NodeSet(G) : {c} \in Edges(G)

\* A returned graph with a character that has rows in two chapters, one of
\* them twice.
C2_Witness ==
    /\ Returned
    /\ \E c \in NodeSet(G) :
         /\ Cardinality(ChaptersOf(df, c)) >= 2
         /\ \E r \in BagToSet(df) : r.character = c /\ r.chapter # NoneInt /\ df[r] >= 2
         /\ G.adj[{c}] = 0

\* C3: every degree the metrics report is the number of distinct other
\* characters the node shares a chapter with.
C3_DegreeIgnoresSelfLoop ==
    pc = "plotted" =>
        \A i \in DOMAIN report.degree_sequence :
            report.degree_sequence[i] = Cardinality(CoStars(df, G.nodes[i]))

\* C4: no name is ever a node unless a row with a chapter holds it, and the
\* returned graph's nodes are exactly the names of the rows with a chapter.
C4_NodesAreInputCharacters ==
    /\ NodeSet(G) \subseteq InputCharacters(df)
    /\ Returned => NodeSet(G) = InputCharacters(df)

\* A returned graph with a node that never co-occurs with anyone, from a
\* table that also names a character only in a row without chapter.
C4_Witness ==
    /\ Returned
    /\ \E c \in NodeSet(G) : CoStars(df, c) = {}
    /\ \E r \in BagToSet(df) : r.chapter = NoneInt /\ r.character \notin NodeSet(G)

\* C5: the empty table gives the graph without nodes and edges, and the
\* metrics on it end in the EmptyGraph error.
C5_EmptyGraphError ==
    df = EmptyBag =>
        /\ Returned => NodeSet(G) = {} /\ Edges(G) = {}
        /\ MetricsEnded => pc = "raised" /\ error = "EmptyGraph"

\* C6: the average reported is the sum of the nodes' degrees over the number
\* of nodes, and the counts of the degree distribution add up to the node
\* count reported.
C6_AverageOverAllNodes ==
    pc = "plotted" =>
        /\ report.average.num = SumOver(NodeSet(G), [n \in NodeSet(G) |-> Degree(G, n)])
        /\ report.average.den = Cardinality(NodeSet(G))
        /\ report.total_nodes = Cardinality(NodeSet(G))
        /\ SumOver(DOMAIN report.degree_count, report.degree_count) = report.total_nodes

\* Metrics of a graph with a node that co-occurs with nobody and two nodes
\* of a larger degree.
C6_Witness ==
    /\ pc = "plotted"
    /\ \E c \in NodeSet(G) : CoStars(df, c) = {}
    /\ \E x \in DOMAIN report.degree_count : report.degree_count[x] >= 2
    /\ Cardinality(DOMAIN report.degree_count) >= 2

\* C7: the edge count reported is the number of unordered pairs of different
\* characters that are connected.
C7_EdgeCountExcludesSelfLoops ==
    pc = "plotted" => report.total_edges = Cardinality(CrossEdges(G))

\* C8: whatever order the loops took, the returned graph is the one the
\* table alone determines: its nodes, its edges and their weights.
C8_ReturnedGraphDeterminedByInput ==
    Returned =>
        /\ NodeSet(G) = InputCharacters(df)
        /\ Edges(G) = CoOccurringPairs(df) \cup {{c} : c \in InputCharacters(df)}
        /\ \A e \in Edges(G) : G.adj[e] = IF Cardinality(e) = 2 THEN 2 ELSE 0

\* A graph returned from two chapters, one of three characters, whose first
\* node is not the alphabetically first.
C8_Witness ==
    /\ Returned
    /\ Cardinality(UniqueChapters(df) \ {NoneInt}) >= 2
    /\ \E ch \in ChapterIds : Cardinality(CharactersIn(df, ch)) >= 3
    /\ G.nodes[1] # "A"

\* C9: every row handed to the builder has a chapter, and that chapter is
\* one of the chapters table.
C9_RowsHaveMatchedChapter ==
    pc \notin {"extract", "join", "drop_nulls", "coerce"} =>
        \A r \in BagToSet(df) :
            /\ r.chapter # NoneInt
            /\ \E c \in chapters_df : c.chapter = r.chapter

\* C10: while a chapter of exactly one character is processed, every step
\* keeps each edge and its weight, adds no node but that character and no
\* edge but its self-loop, of weight 0; when the chapter is done the
\* character is a node with that self-loop.
InSingleCharacterChapter ==
    /\ pc \in {"characters", "pairs", "increment"}
    /\ Cardinality(CharactersIn(df, chapter)) = 1
    /\ chapter # NoneInt

C10_SingleCharacterChapterFrame ==
    [][InSingleCharacterChapter =>
         \A c \in CharactersIn(df, chapter) :
            /\ NodeSet(G') \subseteq NodeSet(G) \cup {c}
            /\ Edges(G') \subseteq Edges(G) \cup {{c}}
            /\ \A e \in Edges(G) : e \in Edges(G') /\ G'.adj[e] = G.adj[e]
            /\ {c} \in Edges(G') => G'.adj[{c}] = 0
            /\ pc' = "chapters" => c \in NodeSet(G') /\ {c} \in Edges(G')]_vars

\* A chapter of one character has just been processed in a graph that
\* already held an edge between two characters and that character's node.
C10_Witness ==
    /\ pc = "chapters"
    /\ chapter # NoneInt
    /\ Cardinality(CharactersIn(df, chapter)) = 1
    /\ CrossEdges(G) # {}
    /\ \A c \in CharactersIn(df, chapter) :
         c \in NodeSet(G) /\ G.adj[{c}] = 0 /\ \E e \in CrossEdges(G) : c \in e

====
